---- MODULE Spec2Model ----
(***************************************************************************)
(* Resolve pass of the control-policy reference architecture:              *)
(* resolve_control_policy_data.py ("cp") and resolve_scp_data.py ("scp"),  *)
(* and the capture pass generate_scp_ou_structure_and_imports.py.          *)
(*                                                                         *)
(* Strings are sequences of tokens.  A token is an atomic chunk of text:   *)
(* no token contains another token of the alphabet, so a suffix test, a    *)
(* substring search or a str.replace on the text is the same test on the   *)
(* token sequence.                                                         *)
(***************************************************************************)
EXTENDS Integers, Sequences, FiniteSets, TLC

VARIABLES
    script,      \* which script runs: "cp", "scp" or "capture"
    org,         \* the live hierarchy the Organizations API answers from
    fs,          \* the mirror: directory path -> set of file names in it
    pc,          \* position of main(): "main", "walk", "write", "done", "failed", "verify"
    typeIdx,     \* index of current_policy_type in policy_list
    stack,       \* the recursion of get_policy_attachments, innermost frame last
    data_dict,   \* the registry: a Python dict, in insertion order
    output,      \* the records appended to OUTPUT_FILE
    error,       \* the exception that ended the run, NoError if none
    visited,     \* target ids scanned in this traversal (the "Scanning ..." log lines)
    listed,      \* ParentIds of the list_children calls of this traversal
    run,         \* "first" or "second" start of the script over the same mirror
    previous,    \* how the previous run ended and the OUTPUT_FILE it left
    attached,                 \* capture: target id -> names list_policies_for_target returns
    skip_import_creation,     \* capture: --skip-import-creation
    skip_customer_cp_refresh, \* capture: --skip-customer-scp-refresh
    all_attachments_counter,  \* capture: Counter of the attached policy names
    attachment_dict,          \* capture: the dict get_child_ou_and_scps fills and returns
    imports                   \* capture: the import blocks written

\* the state of the capture script
captureVars == <<attached, skip_import_creation, skip_customer_cp_refresh,
                 all_attachments_counter, attachment_dict, imports>>

\* what the steps of one run of a resolve script leave alone
otherVars == <<run, previous, captureVars>>

vars == <<script, org, fs, pc, typeIdx, stack, data_dict, output, error, visited, listed,
          otherVars>>

----------------------------------------------------------------------------
(* Bounds of the model *)

\* files in the whole mirror (walk specification)
MaxFiles == 4
\* entries of the one directory handed to verify_attachment_counts (SpecVerify)
MaxListing == 5
\* files in the whole mirror when the script is run twice (SpecTwice)
MaxFilesTwice == 3

----------------------------------------------------------------------------
(* Program constants *)

MAX_CUSTOM_POLICY_ATTACHMENTS == 4
CONTROL_POLICIES_FOLDER == <<"control_policies_ou_structure">>
\* the child types the other way round: accounts walked before OUs
CHILD_TYPES_AccountsFirst == <<"ACCOUNT", "ORGANIZATIONAL_UNIT">>

CHILD_TYPES == <<"ORGANIZATIONAL_UNIT", "ACCOUNT">>
ACCOUNT_SUFFIX == <<"_", "ACCOUNT">>
policy_list == <<"SERVICE_CONTROL_POLICY", "RESOURCE_CONTROL_POLICY">>

\* os.path.join(a, b) on POSIX, b not absolute
PathJoin(a, b) == a \o <<"/">> \o b

root_path == PathJoin(CONTROL_POLICIES_FOLDER, <<"ROOT">>)

----------------------------------------------------------------------------
(* Text helpers *)

Last(s) == s[Len(s)]

EndsWith(s, suf) ==
    /\ Len(s) >= Len(suf)
    /\ SubSeq(s, Len(s) - Len(suf) + 1, Len(s)) = suf

StartsWith(s, pre) ==
    /\ Len(s) >= Len(pre)
    /\ SubSeq(s, 1, Len(pre)) = pre

\* str.replace(old, ""): every non-overlapping occurrence of old, left to right
RECURSIVE StrRemove(_, _)
StrRemove(s, old) ==
    IF s = <<>> THEN <<>>
    ELSE IF StartsWith(s, old) THEN StrRemove(SubSeq(s, Len(old) + 1, Len(s)), old)
    ELSE <<Head(s)>> \o StrRemove(Tail(s), old)

\* str.replace("\\", "/")
BackslashToSlash(s) == [i \in 1..Len(s) |-> IF s[i] = "\\" THEN "/" ELSE s[i]]

Range(s) == {s[i] : i \in 1..Len(s)}

----------------------------------------------------------------------------
(* Exceptions *)

NoPath == <<>>
NoError == [type |-> "none", what |-> "", path |-> NoPath, advice |-> FALSE]

\* Exception("The {current_path} folder has more than 4 {policy_type} attachments ...")
TooManyAttachments(current_path) ==
    [type |-> "Exception", what |-> "max_attachments", path |-> current_path, advice |-> FALSE]

\* Exception("The {current_path} folder is an OU folder with more than 2 custom attachments ...")
TooManyOuAttachments(current_path) ==
    [type |-> "Exception", what |-> "ou_attachments", path |-> current_path, advice |-> FALSE]

\* Exception("Policy type {policy_type} is not supported ...")
UnsupportedType ==
    [type |-> "Exception", what |-> "policy_type", path |-> NoPath, advice |-> FALSE]

\* Exception("The {policy_type} {base_name} (path: {current_path}) contains a space ...")
SpaceInName(current_path) ==
    [type |-> "Exception", what |-> "space", path |-> current_path, advice |-> FALSE]

\* os.listdir on a missing directory: FileNotFoundError(2, "No such file or directory", path)
ListdirNotFound(current_path) ==
    [type |-> "FileNotFoundError", what |-> "listdir", path |-> current_path, advice |-> FALSE]

\* FileNotFoundError("The AWS OU structure contains a resource without a matching
\* file/folder ... To resolve this, run the update_scp_ou_structure workflow ...")
NoMatchingFolder ==
    [type |-> "FileNotFoundError", what |-> "no_matching_folder", path |-> NoPath, advice |-> TRUE]

\* children.append(...) on the dict list_children returned
DictHasNoAppend ==
    [type |-> "AttributeError", what |-> "dict_append", path |-> NoPath, advice |-> FALSE]

----------------------------------------------------------------------------
(* Policy types and file names *)

ShortName(policy_type) ==
    IF policy_type = "RESOURCE_CONTROL_POLICY" THEN "rcp"
    ELSE IF policy_type = "SERVICE_CONTROL_POLICY" THEN "scp"
    ELSE "unsupported"

\* the text ".{short_name}"
DotExt(short_name) == IF short_name = "rcp" THEN ".rcp" ELSE ".scp"

\* the count without the extension test: every directory entry counts
IsAttachmentName_AnyFile(each_item, short_name) == TRUE

\* re.search(rf"\.{short_name}(\.shared)?$", each_item)
IsAttachmentName(each_item, short_name) ==
    \/ EndsWith(each_item, <<DotExt(short_name)>>)
    \/ EndsWith(each_item, <<DotExt(short_name), ".shared">>)

\* glob "*.{short_name}": any name ending in the extension ("*" does not match a leading dot)
MatchesDirectGlob(name, short_name) ==
    /\ EndsWith(name, <<DotExt(short_name)>>)
    /\ Head(name) \notin {".scp", ".rcp", ".shared", ".placeholder", ".guardrail"}

\* glob "*.{short_name}.shared"
MatchesSharedGlob(name, short_name) ==
    /\ EndsWith(name, <<DotExt(short_name), ".shared">>)
    /\ Head(name) \notin {".scp", ".rcp", ".shared", ".placeholder", ".guardrail"}

\* re.search(r"(ROOT|ACCOUNT)$", current_path)
EndsRootOrAccount(current_path) == Last(current_path) \in {"ROOT", "ACCOUNT"}

\* re.search(r" ", base_name)
HasSpace(base_name) == " " \in Range(base_name)

----------------------------------------------------------------------------
(* The mirror file system *)

\* sub-directory names directly under directory p
SubDirs(f, p) ==
    {SubSeq(q, Len(p) + 2, Len(q)) :
        q \in {r \in DOMAIN f : /\ StartsWith(r, p \o <<"/">>)
                                /\ "/" \notin Range(SubSeq(r, Len(p) + 2, Len(r)))}}

\* os.listdir(current_path)
Listdir(f, current_path) == f[current_path] \cup SubDirs(f, current_path)

\* os.path.isfile(os.path.join(current_path, each_item))
IsFile(f, current_path, each_item) == each_item \in f[current_path]

----------------------------------------------------------------------------
(* verify_attachment_counts *)

\* the for-loop over os.listdir(current_path), items taken in the listing's order
RECURSIVE VerifyLoop(_, _, _, _, _)
VerifyLoop(f, current_path, short_name, items, attachment_count) ==
    IF items = {} THEN NoError
    ELSE LET each_item == CHOOSE x \in items : TRUE
             count == IF /\ IsFile(f, current_path, each_item)
                         /\ IsAttachmentName(each_item, short_name)
                      THEN attachment_count + 1
                      ELSE attachment_count
         IN  IF count > MAX_CUSTOM_POLICY_ATTACHMENTS
             THEN TooManyAttachments(current_path)
             ELSE IF /\ ~EndsRootOrAccount(current_path)
                     /\ count > MAX_CUSTOM_POLICY_ATTACHMENTS - 2
             THEN TooManyOuAttachments(current_path)
             ELSE VerifyLoop(f, current_path, short_name, items \ {each_item}, count)

\* the exception verify_attachment_counts raises, NoError when it returns
verify_attachment_counts(f, current_path, policy_type) ==
    IF ShortName(policy_type) = "unsupported" THEN UnsupportedType
    ELSE IF current_path \notin DOMAIN f THEN ListdirNotFound(current_path)
    ELSE VerifyLoop(f, current_path, ShortName(policy_type), Listdir(f, current_path), 0)

----------------------------------------------------------------------------
(* data_dict: a Python dict, kept as the sequence of its items in insertion order *)

Keys(d) == {d[i].name : i \in 1..Len(d)}

IndexOf(d, k) == CHOOSE i \in 1..Len(d) : d[i].name = k

\* d[k]
DictGet(d, k) == d[IndexOf(d, k)]

\* d[k] = {"path": path, "targets": targets}: a new key goes last, an old key keeps its place
DictSet(d, k, path, targets) ==
    LET item == [name |-> k, path |-> path, targets |-> targets]
    IN  IF k \in Keys(d)
        THEN [d EXCEPT ![IndexOf(d, k)] = item]
        ELSE Append(d, item)

\* d[k]["targets"].append(target)
AppendTarget(d, k, target) ==
    [d EXCEPT ![IndexOf(d, k)].targets = Append(@, target)]

----------------------------------------------------------------------------
(* get_policy_attachments: the scan of one directory *)

\* the order in which a directory lists its entries
NaturalOrder ==
    << <<"B", ".scp">>, <<"A", ".scp">>, <<"A", " ", "B", ".scp">>,
       <<"A", ".scp", ".shared">>, <<"B", ".scp", ".shared">>, <<"C", ".scp", ".shared">>,
       <<"A", ".rcp">>, <<"A", ".rcp", ".shared">>,
       <<"FullAWSAccess", ".placeholder">>, <<"aws-guardrails-abc", ".guardrail">> >>

\* the files the capture pass writes into the directory of a node, in listing order
CapturedOrder ==
    << <<"P", ".json">>, <<"P", ".shared">>, <<"Q", ".json">>, <<"Q", ".shared">>,
       <<"aws-guardrails", "-abc", ".guardrail">> >>

\* the order a directory is listed in
ListingOrder == NaturalOrder \o CapturedOrder

\* glob.glob(os.path.join(current_path, "*.{short_name}"), recursive=False)
GlobDirect(f, current_path, short_name) ==
    LET listing == Listdir(f, current_path)
    IN  SelectSeq(ListingOrder,
                  LAMBDA n : n \in listing /\ MatchesDirectGlob(n, short_name))

\* glob.glob(os.path.join(current_path, "*.{short_name}.shared"))
GlobShared(f, current_path, short_name) ==
    LET listing == Listdir(f, current_path)
    IN  SelectSeq(ListingOrder,
                  LAMBDA n : n \in listing /\ MatchesSharedGlob(n, short_name))

\* os.path.basename(json).replace(".{short_name}", "")
DirectBaseName(file_name, short_name) == StrRemove(file_name, <<DotExt(short_name)>>)

\* resolve_control_policy_data.py: basename.replace(f".{short_name}.shared", "")
SharedBaseNameCp(file_name, short_name) ==
    StrRemove(file_name, <<DotExt(short_name), ".shared">>)

\* resolve_scp_data.py: basename.replace(".{short_name}.shared", ""): a plain string,
\* the text "{short_name}" itself, which occurs in no file name
SharedBaseNameScp(file_name, short_name) ==
    StrRemove(file_name, <<".{short_name}.shared">>)

SharedBaseName(scr, file_name, short_name) ==
    IF scr = "cp"
    THEN SharedBaseNameCp(file_name, short_name)
    ELSE SharedBaseNameScp(file_name, short_name)

\* f"{current_path}/{base_name}.{short_name}"
DirectPath(current_path, base_name, short_name) ==
    current_path \o <<"/">> \o base_name \o <<DotExt(short_name)>>

\* f"{CONTROL_POLICIES_FOLDER}/SHARED/{base_name}.{short_name}"
SharedPath(base_name, short_name) ==
    CONTROL_POLICIES_FOLDER \o <<"/", "SHARED", "/">> \o base_name \o <<DotExt(short_name)>>

\* the body of the direct loop for one file: the registry after it
DirectEntry(d, current_path, current_target_id, base_name, short_name) ==
    DictSet(d, base_name, DirectPath(current_path, base_name, short_name),
            <<current_target_id>>)

\* the body of the shared loop for one file: the registry after it
SharedEntry(d, current_target_id, base_name, short_name) ==
    IF base_name \in Keys(d)
    THEN AppendTarget(d, base_name, current_target_id)
    ELSE DictSet(d, base_name, SharedPath(base_name, short_name), <<current_target_id>>)

\* the loop over directly-attached policies; only the cp script checks for a space
RECURSIVE DirectLoop(_, _, _, _, _, _)
DirectLoop(scr, d, files, current_path, current_target_id, short_name) ==
    IF files = <<>> THEN [dict |-> d, err |-> NoError]
    ELSE LET base_name == DirectBaseName(Head(files), short_name)
         IN  IF scr = "cp" /\ HasSpace(base_name)
             THEN [dict |-> d, err |-> SpaceInName(current_path)]
             ELSE DirectLoop(scr,
                             DirectEntry(d, current_path, current_target_id,
                                         base_name, short_name),
                             Tail(files), current_path, current_target_id, short_name)

\* the loop over shared-pointer files
RECURSIVE SharedLoop(_, _, _, _, _)
SharedLoop(scr, d, files, current_target_id, short_name) ==
    IF files = <<>> THEN d
    ELSE SharedLoop(scr,
                    SharedEntry(d, current_target_id,
                                SharedBaseName(scr, Head(files), short_name), short_name),
                    Tail(files), current_target_id, short_name)

\* the scan with the count check after the two loops instead of before them
ScanFolder_VerifyLast(scr, f, d, current_target_id, current_path, policy_type) ==
    LET short_name == ShortName(policy_type)
        exists == current_path \in DOMAIN f
        direct == DirectLoop(scr, d, GlobDirect(f, current_path, short_name),
                             current_path, current_target_id, short_name)
        shared == SharedLoop(scr, direct.dict, GlobShared(f, current_path, short_name),
                             current_target_id, short_name)
    IN  IF short_name = "unsupported" THEN [dict |-> d, err |-> UnsupportedType]
        ELSE IF ~exists THEN [dict |-> d, err |-> ListdirNotFound(current_path)]
        ELSE IF direct.err # NoError THEN direct
        ELSE [dict |-> shared,
              err |-> verify_attachment_counts(f, current_path, policy_type)]

\* get_policy_attachments from its entry to the child loop: the registry it leaves
\* and the exception it raises, if any
ScanFolder(scr, f, d, current_target_id, current_path, policy_type) ==
    LET short_name == ShortName(policy_type)
        checked == verify_attachment_counts(f, current_path, policy_type)
        direct == DirectLoop(scr, d, GlobDirect(f, current_path, short_name),
                             current_path, current_target_id, short_name)
    IN  IF short_name = "unsupported" THEN [dict |-> d, err |-> UnsupportedType]
        ELSE IF checked # NoError THEN [dict |-> d, err |-> checked]
        ELSE IF direct.err # NoError THEN direct
        ELSE [dict |-> SharedLoop(scr, direct.dict,
                                  GlobShared(f, current_path, short_name),
                                  current_target_id, short_name),
              err |-> NoError]

----------------------------------------------------------------------------
(* The live hierarchy behind org_client *)

RootId == "r-x1y2"
Ou1 == "ou-x1y2-aaaaaaa1"
Ou2 == "ou-x1y2-aaaaaaa2"
Acct1 == "111111111111"

OuIds == {Ou1, Ou2}
AccountIds == {Acct1}
NodeIds == {RootId} \cup OuIds \cup AccountIds

\* re.match(r"\d{12}", current_target_id): of the ids above, the account ids
IsAccountId(id) == id \in AccountIds

\* a hierarchy: Ou1 under the root, Ou2 under p2, Acct1 under pa
OrgOf(p2, pa, names) ==
    [ous      |-> [n \in NodeIds |->
                     SelectSeq(<<Ou1, Ou2>>,
                               LAMBDA c : (c = Ou1 /\ n = RootId) \/ (c = Ou2 /\ n = p2))],
     accounts |-> [n \in NodeIds |-> IF n = pa THEN <<Acct1>> ELSE <<>>],
     parent   |-> [n \in OuIds \cup AccountIds |->
                     IF n = Ou1 THEN RootId ELSE IF n = Ou2 THEN p2 ELSE pa],
     name     |-> names]

WalkNames == [n \in OuIds \cup AccountIds |->
                 IF n = Ou1 THEN <<"Dev">> ELSE IF n = Ou2 THEN <<"Prod">> ELSE <<"Audit">>]

\* root -> Dev -> Prod with the account under the root, and
\* root -> {Dev, Prod} with the account under Dev
Orgs == {OrgOf(Ou1, RootId, WalkNames), OrgOf(RootId, Ou1, WalkNames)}

\* org_client.list_children(ParentId, ChildType)["Children"]
list_children(o, ParentId, ChildType) ==
    IF ChildType = "ORGANIZATIONAL_UNIT" THEN o.ous[ParentId] ELSE o.accounts[ParentId]

\* the directory name of a child: the OU's name, or the account's name + ACCOUNT_SUFFIX
child_path_name(o, child_type, object_id) ==
    IF child_type = "ORGANIZATIONAL_UNIT"
    THEN o.name[object_id]
    ELSE o.name[object_id] \o ACCOUNT_SUFFIX

\* the current_path the walk reaches node n with
RECURSIVE NodePath(_, _)
NodePath(o, n) ==
    IF n = RootId THEN root_path
    ELSE PathJoin(NodePath(o, o.parent[n]),
                  child_path_name(o, IF IsAccountId(n) THEN "ACCOUNT"
                                     ELSE "ORGANIZATIONAL_UNIT", n))

\* n and the nodes below it
RECURSIVE Subtree(_, _)
Subtree(o, n) ==
    {n} \cup UNION {Subtree(o, c) : c \in Range(o.ous[n]) \cup Range(o.accounts[n])}

\* the order get_policy_attachments visits the nodes below and including n:
\* n, then its child OUs' subtrees, then its child accounts
RECURSIVE PreOrder(_, _)
RECURSIVE PreOrderAll(_, _)
PreOrder(o, n) == <<n>> \o PreOrderAll(o, o.ous[n] \o o.accounts[n])
PreOrderAll(o, cs) ==
    IF cs = <<>> THEN <<>> ELSE PreOrder(o, Head(cs)) \o PreOrderAll(o, Tail(cs))

----------------------------------------------------------------------------
(* Initial states: a script, a hierarchy and a mirror *)

\* file names the mirror of the walk draws from
WalkFiles ==
    { <<"A", ".scp">>, <<"B", ".scp">>, <<"A", ".scp", ".shared">>,
      <<"A", " ", "B", ".scp">>, <<"A", ".rcp">> }

\* the subsets of S of at most k elements
RECURSIVE SubsetsUpTo(_, _)
SubsetsUpTo(S, k) ==
    IF k = 0 THEN {{}}
    ELSE LET T == SubsetsUpTo(S, k - 1) IN T \cup {t \cup {x} : t \in T, x \in S}

\* the mirror holding the files of `placed` (<<node, file name>> pairs) with the
\* directories of `gone` absent
MirrorOf(o, placed, gone) ==
    [p \in {NodePath(o, n) : n \in NodeIds \ gone} |->
        {pl[2] : pl \in {x \in placed : NodePath(o, x[1]) = p}}]

\* no earlier run: OUTPUT_FILE does not exist
NoRun == [pc |-> "none", output |-> <<>>]

\* import_policies.tf and import_policy_attachments.tf hold no import block
NoImports == [policies |-> <<>>, attachments |-> <<>>]

\* the capture script is not run
CaptureIdle ==
    /\ attached = [n \in NodeIds |-> <<>>]
    /\ skip_import_creation = FALSE
    /\ skip_customer_cp_refresh = FALSE
    /\ all_attachments_counter = <<>>
    /\ attachment_dict = <<>>
    /\ imports = NoImports

InitWith(scr, max_files) ==
    /\ script = scr
    /\ org \in Orgs
    /\ \E placed \in SubsetsUpTo(NodeIds \X WalkFiles, max_files) :
       \E gone \in {{}} \cup {Subtree(org, n) : n \in NodeIds} :
          /\ \A x \in placed : x[1] \notin gone
          /\ fs = MirrorOf(org, placed, gone)
    /\ pc = "main"
    /\ typeIdx = 1
    /\ stack = <<>>
    /\ data_dict = <<>>
    /\ output = <<>>
    /\ error = NoError
    /\ visited = <<>>
    /\ listed = <<>>
    /\ run = "first"
    /\ previous = NoRun
    /\ CaptureIdle

InitOf(scr) == InitWith(scr, MaxFiles)

\* resolve_control_policy_data.py
Init == InitOf("cp")

\* resolve_scp_data.py
InitScp == InitOf("scp")

----------------------------------------------------------------------------
(* The walk *)

\* the except clause around the recursive call: a FileNotFoundError raised in a
\* call made from `depth` enclosing calls is replaced by a new one at each of them
Propagate(err, depth) ==
    IF err.type = "FileNotFoundError" /\ depth >= 1 THEN NoMatchingFolder ELSE err

\* a frame that lists the children of an account as of any other node
FrameAfterScan_ListsAccounts(current_target_id, current_path) ==
    [id |-> current_target_id, path |-> current_path, typeI |-> 1, todo |-> <<>>,
     phase |-> "list"]

\* the frame of a call about to run its child loop; an account skips both child types
FrameAfterScan(current_target_id, current_path) ==
    [id |-> current_target_id, path |-> current_path, typeI |-> 1, todo |-> <<>>,
     phase |-> IF IsAccountId(current_target_id) THEN "return" ELSE "list"]

\* the for loops of the child section: past an exhausted child list
Advance(frame) ==
    IF frame.phase = "iter" /\ frame.todo = <<>>
    THEN IF frame.typeI < Len(CHILD_TYPES)
         THEN [frame EXCEPT !.typeI = @ + 1, !.phase = "list"]
         ELSE [frame EXCEPT !.phase = "return"]
    ELSE frame

\* data_dict.update(other)
RECURSIVE DictUpdate(_, _)
DictUpdate(d, other) ==
    IF other = <<>> THEN d
    ELSE DictUpdate(DictSet(d, other[1].name, other[1].path, other[1].targets), Tail(other))

\* a call of get_policy_attachments made under callers `outer`, up to its child loop
Call(outer, d, seen, current_target_id, current_path) ==
    LET r == ScanFolder(script, fs, d, current_target_id, current_path,
                        policy_list[typeIdx])
    IN  /\ visited' = Append(seen, current_target_id)
        /\ data_dict' = r.dict
        /\ IF r.err = NoError
           THEN /\ stack' = Append(outer, FrameAfterScan(current_target_id, current_path))
                /\ pc' = "walk"
                /\ error' = error
           ELSE /\ stack' = <<>>
                /\ pc' = "failed"
                /\ error' = Propagate(r.err, Len(outer))

\* main(): the next policy type's traversal starts at the root; the cp script
\* hands it an empty dict, the scp script the dict of the previous traversal
Main ==
    /\ pc = "main"
    /\ listed' = <<>>
    /\ Call(<<>>, IF script = "cp" THEN <<>> ELSE data_dict, <<>>, RootId, root_path)
    /\ UNCHANGED <<otherVars, script, org, fs, typeIdx, output>>

\* org_client.list_children for the current child type; a response with a
\* NextToken makes the pagination loop call append on a dict
ListChildren ==
    /\ pc = "walk"
    /\ stack # <<>>
    /\ Last(stack).phase = "list"
    /\ LET frame == Last(stack)
           child_type == CHILD_TYPES[frame.typeI]
       IN  /\ listed' = Append(listed, <<frame.id, child_type>>)
           /\ \E NextToken \in BOOLEAN :
                IF NextToken
                THEN /\ pc' = "failed"
                     /\ error' = DictHasNoAppend
                     /\ stack' = <<>>
                ELSE /\ stack' = [stack EXCEPT ![Len(stack)] =
                                    Advance([frame EXCEPT
                                               !.phase = "iter",
                                               !.todo = list_children(org, frame.id,
                                                                      child_type)])]
                     /\ UNCHANGED <<pc, error>>
    /\ UNCHANGED <<otherVars, script, org, fs, typeIdx, data_dict, output, visited>>

\* the recursive call for the next child
Recurse ==
    /\ pc = "walk"
    /\ stack # <<>>
    /\ Last(stack).phase = "iter"
    /\ Last(stack).todo # <<>>
    /\ LET frame == Last(stack)
           object_id == Head(frame.todo)
           name == child_path_name(org, CHILD_TYPES[frame.typeI], object_id)
           outer == [stack EXCEPT ![Len(stack)].todo = Tail(@)]
       IN  Call(outer, data_dict, visited, object_id, PathJoin(frame.path, name))
    /\ UNCHANGED <<otherVars, script, org, fs, typeIdx, output, listed>>

\* return data_dict; the caller updates data_dict with it and goes on
Return ==
    /\ pc = "walk"
    /\ stack # <<>>
    /\ Last(stack).phase = "return"
    /\ LET outer == SubSeq(stack, 1, Len(stack) - 1)
       IN  IF outer = <<>>
           THEN /\ stack' = <<>>
                /\ pc' = "write"
                /\ data_dict' = data_dict
           ELSE /\ stack' = [outer EXCEPT ![Len(outer)] = Advance(@)]
                /\ pc' = "walk"
                /\ data_dict' = DictUpdate(data_dict, data_dict)
    /\ UNCHANGED <<otherVars, script, org, fs, typeIdx, output, error, visited, listed>>

\* the record get_terraform_resource_string renders for one entry
ManifestEntry(item, cp_type) ==
    [cp_name |-> item.name,
     cp_policy_path |-> BackslashToSlash(item.path),
     cp_target_list |-> item.targets,
     cp_type |-> cp_type]

\* main(): append the traversal's entries to OUTPUT_FILE, go to the next policy type
WriteManifest ==
    /\ pc = "write"
    /\ output' = output \o [i \in 1..Len(data_dict) |->
                              ManifestEntry(data_dict[i], policy_list[typeIdx])]
    /\ typeIdx' = IF typeIdx = Len(policy_list) THEN typeIdx ELSE typeIdx + 1
    /\ pc' = IF typeIdx = Len(policy_list) THEN "done" ELSE "main"
    /\ UNCHANGED <<otherVars, script, org, fs, stack, data_dict, error, visited, listed>>

Next ==
    \/ Main
    \/ ListChildren
    \/ Recurse
    \/ Return
    \/ WriteManifest

Spec == Init /\ [][Next]_vars

----------------------------------------------------------------------------
(* The script run a second time over the same mirror and hierarchy *)

\* main(): if os.path.exists(OUTPUT_FILE): os.remove(OUTPUT_FILE)
KeepOutputFile(file) == file

RemoveOutputFile(file) == <<>>

\* a new process runs main() up to its loop: nothing of the earlier process is
\* left but the OUTPUT_FILE, which main() removes
StartAgain ==
    /\ pc \in {"done", "failed"}
    /\ run = "first"
    /\ run' = "second"
    /\ previous' = [pc |-> pc, output |-> output]
    /\ output' = RemoveOutputFile(output)
    /\ pc' = "main"
    /\ typeIdx' = 1
    /\ stack' = <<>>
    /\ data_dict' = <<>>
    /\ error' = NoError
    /\ visited' = <<>>
    /\ listed' = <<>>
    /\ UNCHANGED <<script, org, fs, captureVars>>

InitTwice == InitWith("cp", MaxFilesTwice)

NextTwice ==
    \/ Next
    \/ StartAgain

SpecTwice == InitTwice /\ [][NextTwice]_vars

SpecScp == InitScp /\ [][Next]_vars

----------------------------------------------------------------------------
(* verify_attachment_counts on its own: one directory of any content, with or  *)
(* without a sub-directory whose name looks like an attachment file            *)

OuNames == { <<"Dev">>, <<"Sandbox", "_", "ROOT">>, <<"Legacy", "_", "ACCOUNT">> }

VerifyFiles == Range(NaturalOrder)

InitVerify ==
    /\ script = "cp"
    /\ \E nm \in OuNames :
          org = OrgOf(RootId, RootId, [WalkNames EXCEPT ![Ou1] = nm])
    /\ typeIdx \in 1..Len(policy_list)
    /\ \E n \in {RootId, Ou1, Acct1} :
       \E listing \in SubsetsUpTo(VerifyFiles, MaxListing) :
       \E subdirs \in SUBSET {PathJoin(NodePath(org, n), <<"Old", ".scp">>)} :
          /\ stack = << [id |-> n, path |-> NodePath(org, n), typeI |-> 1,
                         todo |-> <<>>, phase |-> "verify"] >>
          /\ fs = [p \in {NodePath(org, n)} \cup subdirs |->
                     IF p = NodePath(org, n) THEN listing ELSE {}]
    /\ pc = "verify"
    /\ data_dict = <<>>
    /\ output = <<>>
    /\ error = NoError
    /\ visited = <<>>
    /\ listed = <<>>
    /\ run = "first"
    /\ previous = NoRun
    /\ CaptureIdle

\* verify_attachment_counts(current_path, policy_type) returns or raises
VerifyAttachmentCounts ==
    /\ pc = "verify"
    /\ error' = verify_attachment_counts(fs, stack[1].path, policy_list[typeIdx])
    /\ pc' = IF error' = NoError THEN "verified" ELSE "failed"
    /\ UNCHANGED <<otherVars, script, org, fs, typeIdx, stack, data_dict, output, visited, listed>>

NextVerify == VerifyAttachmentCounts

SpecVerify == InitVerify /\ [][NextVerify]_vars

----------------------------------------------------------------------------
(* The capture pass: generate_scp_ou_structure_and_imports.py *)

\* most attachments in the whole hierarchy (capture specification)
MaxAttachments == 3

OUTPUT_FOLDER == <<"service_control_policies">>

SHARED_FOLDER == PathJoin(OUTPUT_FOLDER, <<"SHARED">>)

\* the policies of the organization, in the order the API lists them; P has an
\* empty description
ApiPolicies == << <<"FullAWSAccess">>, <<"aws-guardrails", "-abc">>, <<"P">>, <<"Q">> >>

PolicyId(cp_name) == <<"p-">> \o cp_name

Description(cp_name) == IF cp_name = <<"P">> THEN <<>> ELSE <<"about ">> \o cp_name

\* re.match(r"aws-guardrails", name)
IsGuardrail(cp_name) == StartsWith(cp_name, <<"aws-guardrails">>)

\* the policies main() keeps in all_type_policies
CustomerPolicies ==
    SelectSeq(ApiPolicies, LAMBDA nm : nm # <<"FullAWSAccess">> /\ ~IsGuardrail(nm))

\* policy_name.replace(" ", "_")
SpaceToUnderscore(nm) == [i \in 1..Len(nm) |-> IF nm[i] = " " THEN "_" ELSE nm[i]]

\* KeyError: 'scp_target_list'
NoSuchKey ==
    [type |-> "KeyError", what |-> "scp_target_list", path |-> NoPath, advice |-> FALSE]

\* TypeError: get_child_ou_and_scps() got an unexpected keyword argument
\* 'skip_customer_scp_refresh'
UnexpectedKeyword ==
    [type |-> "TypeError", what |-> "skip_customer_scp_refresh", path |-> NoPath,
     advice |-> FALSE]

RECURSIVE Concat(_)
Concat(ss) == IF ss = <<>> THEN <<>> ELSE ss[1] \o Concat(Tail(ss))

\* get_all_policy_attachments(ou_id, policy_type): the names attached at ou_id and
\* below, one per attachment, and the child-listing calls made on the way
RECURSIVE get_all_policy_attachments(_, _, _)
get_all_policy_attachments(o, att, ou_id) ==
    IF IsAccountId(ou_id)
    THEN [names |-> att[ou_id], calls |-> <<>>]
    ELSE LET child_ous      == o.ous[ou_id]
             child_accounts == o.accounts[ou_id]
             of_ous      == [i \in 1..Len(child_ous) |->
                               get_all_policy_attachments(o, att, child_ous[i])]
             of_accounts == [i \in 1..Len(child_accounts) |->
                               get_all_policy_attachments(o, att, child_accounts[i])]
         IN  [names |-> att[ou_id]
                        \o Concat([i \in 1..Len(of_ous) |-> of_ous[i].names])
                        \o Concat([i \in 1..Len(of_accounts) |-> of_accounts[i].names]),
              calls |-> << <<ou_id, "ORGANIZATIONAL_UNIT">> >>
                        \o Concat([i \in 1..Len(of_ous) |-> of_ous[i].calls])
                        \o << <<ou_id, "ACCOUNT">> >>
                        \o Concat([i \in 1..Len(of_accounts) |-> of_accounts[i].calls])]

\* collections.Counter(list)
Counter(list) ==
    [nm \in Range(list) |-> Cardinality({i \in 1..Len(list) : list[i] = nm})]

\* the name of the directory of ou_id: ROOT, {account_name}_ACCOUNT or the OU's name
ou_name(o, ou_id) ==
    IF ou_id = RootId THEN <<"ROOT">>
    ELSE IF IsAccountId(ou_id) THEN o.name[ou_id] \o <<"_", "ACCOUNT">>
    ELSE o.name[ou_id]

\* os.makedirs(path, exist_ok=True)
Makedirs(f, path) ==
    IF path \in DOMAIN f THEN f
    ELSE [p \in DOMAIN f \cup {path} |-> IF p = path THEN {} ELSE f[p]]

\* open(os.path.join(dir, file_name), "w") and a write
WriteFile(f, dir, file_name) == [f EXCEPT ![dir] = @ \cup {file_name}]

\* the import block of one attachment
AttachmentImport(cp_name, short_name, ou_id) ==
    [to |-> [module |-> cp_name, attach |-> short_name, target |-> ou_id],
     id |-> <<ou_id, PolicyId(cp_name)>>]

\* attachment_dict.get(cp_name) is not None
CaptureHas(d, cp_name) == \E i \in 1..Len(d) : d[i].cp_name = cp_name

\* the policy is attached more than once and customer policies are refreshed
IsShared(cp_name, counter, skip_refresh) ==
    /\ cp_name \in DOMAIN counter
    /\ counter[cp_name] > 1
    /\ ~skip_refresh

\* the body of `for control_policy in attached_scps["Policies"]` for one policy;
\* st holds the files, the dict and the import blocks so far
PolicyBody(st, cp_name, ou_id, ou_path, counter, skip_import, skip_refresh, policy_type) ==
    IF cp_name = <<"FullAWSAccess">>
    THEN [st EXCEPT !.fs = WriteFile(@, ou_path, <<"FullAWSAccess", ".placeholder">>)]
    ELSE IF IsGuardrail(cp_name)
    THEN [st EXCEPT !.fs = WriteFile(@, ou_path, cp_name \o <<".guardrail">>)]
    ELSE
      LET cp_description == IF Description(cp_name) = <<>> THEN cp_name
                            ELSE Description(cp_name)
          shared     == IsShared(cp_name, counter, skip_refresh)
          target_dir == IF shared THEN SHARED_FOLDER ELSE ou_path
          target_path == PathJoin(target_dir, cp_name \o <<".json">>)
          placed     == IF shared THEN WriteFile(st.fs, ou_path, cp_name \o <<".shared">>)
                        ELSE st.fs
      IN  IF skip_refresh THEN [st EXCEPT !.fs = placed]
          ELSE
            LET written == WriteFile(placed, target_dir, cp_name \o <<".json">>)
                imp == IF skip_import THEN st.imports
                       ELSE Append(st.imports,
                                   AttachmentImport(cp_name, ShortName(policy_type), ou_id))
            IN  IF ~CaptureHas(st.dict, cp_name)
                THEN [fs |-> written, imports |-> imp, err |-> NoError,
                      dict |-> Append(st.dict,
                                      [cp_name |-> cp_name, cp_desc |-> cp_description,
                                       target_path |-> target_path,
                                       cp_target_list |-> <<ou_id>>])]
                ELSE [fs |-> written, imports |-> imp, err |-> NoSuchKey, dict |-> st.dict]

\* the loop over the policies attached at ou_id, ended by the first exception
RECURSIVE PolicyLoop(_, _, _, _, _, _, _, _)
PolicyLoop(st, policies, ou_id, ou_path, counter, skip_import, skip_refresh, policy_type) ==
    IF policies = <<>> \/ st.err # NoError THEN st
    ELSE PolicyLoop(PolicyBody(st, policies[1], ou_id, ou_path, counter, skip_import,
                               skip_refresh, policy_type),
                    Tail(policies), ou_id, ou_path, counter, skip_import, skip_refresh,
                    policy_type)

\* the children get_child_ou_and_scps recurses into: none below an account
ChildrenOf(o, ou_id) ==
    IF IsAccountId(ou_id) THEN <<>> ELSE o.ous[ou_id] \o o.accounts[ou_id]

\* the child-listing calls made for ou_id
ListingCalls(ou_id) ==
    IF IsAccountId(ou_id) THEN <<>>
    ELSE << <<ou_id, "ORGANIZATIONAL_UNIT">>, <<ou_id, "ACCOUNT">> >>

\* a call of get_child_ou_and_scps made under callers `outer`, up to its child loop
CaptureEnter(outer, ou_id, starting_folder, control_policy_type) ==
    LET ou_path == PathJoin(starting_folder, ou_name(org, ou_id))
        st == PolicyLoop([fs |-> Makedirs(fs, ou_path), dict |-> attachment_dict,
                          imports |-> imports.attachments, err |-> NoError],
                         attached[ou_id], ou_id, ou_path, all_attachments_counter,
                         skip_import_creation, skip_customer_cp_refresh,
                         control_policy_type)
    IN  /\ visited' = Append(visited, ou_id)
        /\ fs' = st.fs
        /\ attachment_dict' = st.dict
        /\ imports' = [imports EXCEPT !.attachments = st.imports]
        /\ IF st.err = NoError
           THEN /\ stack' = Append(outer, [id |-> ou_id, path |-> ou_path, typeI |-> 1,
                                           todo |-> ChildrenOf(org, ou_id),
                                           phase |-> "iter"])
                /\ listed' = listed \o ListingCalls(ou_id)
                /\ pc' = "capture"
                /\ error' = error
           ELSE /\ stack' = <<>>
                /\ listed' = listed
                /\ pc' = "failed"
                /\ error' = st.err

\* the import block write_policy_imports writes for one policy
PolicyImport(policy_name, policy_type) ==
    [to |-> [module |-> SpaceToUnderscore(policy_name), resource |-> policy_type],
     id |-> PolicyId(policy_name)]

\* the attachments of the hierarchy: at most MaxAttachments (node, policy) pairs
AttachedOf(pairs) ==
    [n \in NodeIds |-> SelectSeq(ApiPolicies, LAMBDA nm : <<n, nm>> \in pairs)]

\* the script has parsed its arguments and made OUTPUT_FOLDER and OUTPUT_FOLDER/SHARED
InitCapture ==
    /\ script = "capture"
    /\ org \in Orgs
    /\ \E pairs \in SubsetsUpTo(NodeIds \X Range(ApiPolicies), MaxAttachments) :
          attached = AttachedOf(pairs)
    /\ skip_import_creation \in BOOLEAN
    /\ skip_customer_cp_refresh \in BOOLEAN
    /\ fs = [p \in {OUTPUT_FOLDER, SHARED_FOLDER} |-> {}]
    /\ pc = "capture_main"
    /\ typeIdx = 1
    /\ stack = <<>>
    /\ data_dict = <<>>
    /\ output = <<>>
    /\ error = NoError
    /\ visited = <<>>
    /\ listed = <<>>
    /\ run = "first"
    /\ previous = NoRun
    /\ all_attachments_counter = <<>>
    /\ attachment_dict = <<>>
    /\ imports = NoImports

\* __main__, first policy type of the loop: the policy imports and the count of
\* the attachments of every policy over the whole hierarchy
CountAttachments ==
    /\ pc = "capture_main"
    /\ LET all_policy_attachments == get_all_policy_attachments(org, attached, RootId)
       IN  /\ all_attachments_counter' = Counter(all_policy_attachments.names)
           /\ listed' = listed \o all_policy_attachments.calls
    /\ imports' = IF skip_import_creation THEN imports
                  ELSE [imports EXCEPT !.policies =
                          [i \in 1..Len(CustomerPolicies) |->
                              PolicyImport(CustomerPolicies[i], policy_list[typeIdx])]]
    /\ pc' = "counted"
    /\ UNCHANGED <<script, org, fs, typeIdx, stack, data_dict, output, error, visited,
                   run, previous, attached, skip_import_creation,
                   skip_customer_cp_refresh, attachment_dict>>

\* __main__ calls get_child_ou_and_scps(..., skip_customer_scp_refresh=...), a keyword
\* the function does not have
CaptureMainCall ==
    /\ pc = "counted"
    /\ pc' = "failed"
    /\ error' = UnexpectedKeyword
    /\ UNCHANGED <<script, org, fs, typeIdx, stack, data_dict, output, visited, listed,
                   run, previous, captureVars>>

\* get_child_ou_and_scps called on the root with the arguments of __main__ under the
\* names of its parameters; the global skip_customer_scp_refresh that the recursive
\* calls read holds the value of skip_customer_cp_refresh
CaptureCall ==
    /\ pc = "counted"
    /\ CaptureEnter(<<>>, RootId, OUTPUT_FOLDER, policy_list[typeIdx])
    /\ UNCHANGED <<script, org, typeIdx, data_dict, output, run, previous, attached,
                   skip_import_creation, skip_customer_cp_refresh,
                   all_attachments_counter>>

\* the recursive call for the next child, child OUs before child accounts
CaptureRecurse ==
    /\ pc = "capture"
    /\ Last(stack).todo # <<>>
    /\ LET frame == Last(stack)
           outer == [stack EXCEPT ![Len(stack)].todo = Tail(@)]
       IN  CaptureEnter(outer, Head(frame.todo), frame.path, policy_list[typeIdx])
    /\ UNCHANGED <<script, org, typeIdx, data_dict, output, run, previous, attached,
                   skip_import_creation, skip_customer_cp_refresh,
                   all_attachments_counter>>

\* return attachment_dict; the caller updates attachment_dict with itself
CaptureReturn ==
    /\ pc = "capture"
    /\ Last(stack).todo = <<>>
    /\ stack' = SubSeq(stack, 1, Len(stack) - 1)
    /\ pc' = IF stack' = <<>> THEN "captured" ELSE "capture"
    /\ UNCHANGED <<script, org, fs, typeIdx, data_dict, output, error, visited, listed,
                   run, previous, captureVars>>

NextCapture ==
    \/ CountAttachments
    \/ CaptureMainCall
    \/ CaptureCall
    \/ CaptureRecurse
    \/ CaptureReturn

SpecCapture == InitCapture /\ [][NextCapture]_vars

----------------------------------------------------------------------------
(* The three walks side by side: the resolve walk, and the frequency-count pass
   and the capture walk of the capture script *)

InitWalkers == InitTwice \/ InitCapture

NextWalkers ==
    \/ Next
    \/ NextCapture

SpecWalkers == InitWalkers /\ [][NextWalkers]_vars

----------------------------------------------------------------------------
(* What the mirror holds, as the claims speak of it *)

\* the policy type being walked
CurrentType == policy_list[typeIdx]

\* the file that holds the content of policy nm, and the file that points to the shared pool
DirectFileOf(nm, policy_type) == nm \o <<DotExt(ShortName(policy_type))>>
SharedFileOf(nm, policy_type) == nm \o <<DotExt(ShortName(policy_type)), ".shared">>

PolicyNames == { <<"A">>, <<"B">>, <<"C">>, <<"A", " ", "B">> }

DirExists(n) == NodePath(org, n) \in DOMAIN fs

FilesAt(n) == IF DirExists(n) THEN fs[NodePath(org, n)] ELSE {}

HoldsDirect(n, nm) == DirectFileOf(nm, CurrentType) \in FilesAt(n)
HoldsShared(n, nm) == SharedFileOf(nm, CurrentType) \in FilesAt(n)

\* direct-content and shared-pointer files of the walked type in n's directory
AttachmentFilesAt(n) ==
    {f \in FilesAt(n) : \E nm \in PolicyNames :
        f \in {DirectFileOf(nm, CurrentType), SharedFileOf(nm, CurrentType)}}

\* position of node n in the sequence of visits
VisitIndex(n) == CHOOSE i \in 1..Len(visited) : visited[i] = n

----------------------------------------------------------------------------
(* C5, C6: the attachment-count bounds *)

\* the node verify_attachment_counts was run on (SpecVerify)
VerifiedNode == stack[1].id

\* C5: every OrganizationalUnit node, whatever its name, fails verification when
\* its directory holds more than C - R = 2 attachment files of the walked type.
C5_OuOverTwoFails ==
    (/\ pc \in {"verified", "failed"}
     /\ VerifiedNode \in OuIds
     /\ Cardinality(AttachmentFilesAt(VerifiedNode)) > MAX_CUSTOM_POLICY_ATTACHMENTS - 2)
    => pc = "failed"

\* C6: on an Account or the Root node verification succeeds with at most C = 4
\* attachment files of the walked type and fails with more; placeholder files and
\* files of the other type change the verdict at no node kind: an OU with at most
\* 2 attachment files passes and any node with more than 4 fails.
C6_AccountRootCeiling ==
    pc \in {"verified", "failed"} =>
        LET n == Cardinality(AttachmentFilesAt(VerifiedNode))
        IN  /\ VerifiedNode \notin OuIds =>
                /\ n <= MAX_CUSTOM_POLICY_ATTACHMENTS => error = NoError
                /\ n > MAX_CUSTOM_POLICY_ATTACHMENTS =>
                       error = TooManyAttachments(stack[1].path)
            /\ VerifiedNode \in OuIds =>
                /\ n <= MAX_CUSTOM_POLICY_ATTACHMENTS - 2 => error = NoError
                /\ n > MAX_CUSTOM_POLICY_ATTACHMENTS => error # NoError

\* an account holding exactly 4 attachment files next to a placeholder passes
C6_Witness ==
    /\ pc = "verified"
    /\ VerifiedNode = Acct1
    /\ Cardinality(AttachmentFilesAt(Acct1)) = MAX_CUSTOM_POLICY_ATTACHMENTS
    /\ <<"FullAWSAccess", ".placeholder">> \in FilesAt(Acct1)

----------------------------------------------------------------------------
(* The walk, as the claims speak of it *)

\* the traversal order of the whole hierarchy: pre-order, child OUs before child accounts
TraversalOrder == PreOrder(org, RootId)

OrderIndex(n) == CHOOSE i \in 1..Len(TraversalOrder) : TraversalOrder[i] = n

\* the nodes of S in traversal order
InTraversalOrder(S) == SelectSeq(TraversalOrder, LAMBDA n : n \in S)

\* the entries the registry holds for policy nm
EntriesFor(nm) == {i \in 1..Len(data_dict) : data_dict[i].name = nm}

\* the traversal of the current type has returned to main()
WalkFinished == pc = "write"

Distinct(s) == \A i, j \in 1..Len(s) : i # j => s[i] # s[j]

----------------------------------------------------------------------------
(* C1 - C4: the registry *)

\* C1: a policy with a direct-content file at one node and shared-pointer files at
\* nodes visited later ends as exactly one entry whose path is the shared-pool
\* location and whose targets are those nodes in traversal order.
C1_DirectThenSharedResolvesToSharedPool ==
    WalkFinished =>
        \A nm \in PolicyNames : \A a \in NodeIds :
            LET pointers == {n \in NodeIds : HoldsShared(n, nm)}
            IN  (/\ HoldsDirect(a, nm)
                 /\ \A n \in NodeIds \ {a} : ~HoldsDirect(n, nm)
                 /\ pointers # {}
                 /\ \A n \in pointers : OrderIndex(n) > OrderIndex(a))
                => /\ Cardinality(EntriesFor(nm)) = 1
                   /\ DictGet(data_dict, nm).path = SharedPath(nm, ShortName(CurrentType))
                   /\ DictGet(data_dict, nm).targets
                          = <<a>> \o InTraversalOrder(pointers)

\* C2: after a successful walk the entry of every policy name lists every node
\* whose directory holds a direct-content or shared-pointer file for that name.
C2_EveryHoldingNodeIsTarget ==
    WalkFinished =>
        \A nm \in PolicyNames : \A n \in NodeIds :
            (HoldsDirect(n, nm) \/ HoldsShared(n, nm))
            => /\ nm \in Keys(data_dict)
               /\ n \in Range(DictGet(data_dict, nm).targets)

\* the registry handed to the call a step makes
RegistryIn == IF pc = "main" THEN (IF script = "cp" THEN <<>> ELSE data_dict) ELSE data_dict

\* C3: a call that finds a direct-content file for a name the registry already
\* holds fails with DuplicateCanonicalSource and leaves the entry as it was.
C3_SecondDirectSourceRejected ==
    [][ \A nm \in PolicyNames :
          (/\ visited' # visited
           /\ LET n == Last(visited')
              IN  /\ HoldsDirect(n, nm)
                  /\ verify_attachment_counts(fs, NodePath(org, n), CurrentType) = NoError
           /\ nm \in Keys(RegistryIn))
          => /\ pc' = "failed"
             /\ error'.what = "duplicate_canonical_source"
             /\ DictGet(data_dict', nm) = DictGet(RegistryIn, nm) ]_vars

\* C4: no entry's target list ever holds the same node id twice.
C4_NoDuplicateTargets ==
    \A i \in 1..Len(data_dict) : Distinct(data_dict[i].targets)

----------------------------------------------------------------------------
(* C7, C8: failures *)

\* C7: a visited node without a mirror directory ends the pass with a
\* missing-mirror error that names the node's expected path and recommends the
\* capture pass.
C7_MissingMirrorNamesPathAndAdvises ==
    \A n \in Range(visited) :
        ~DirExists(n)
        => /\ pc = "failed"
           /\ error.type = "FileNotFoundError"
           /\ error.path = NodePath(org, n)
           /\ error.advice

CountViolation == pc = "failed" /\ error.what \in {"max_attachments", "ou_attachments"}

\* C8: an attachment-count violation at a node ends the traversal there: the
\* failing node is the last one visited and nothing runs after it, no entry of
\* the registry has it as a target, and the output holds no entry of the
\* traversal's policy type.
C8_CountViolationAbortsAtOnce ==
    CountViolation =>
        LET n == Last(visited)
        IN  /\ error.path = NodePath(org, n)
            /\ visited = SubSeq(TraversalOrder, 1, OrderIndex(n))
            /\ stack = <<>>
            /\ ~ENABLED Next
            /\ \A i \in 1..Len(data_dict) : n \notin Range(data_dict[i].targets)
            /\ \A i \in 1..Len(output) : output[i].cp_type # CurrentType

\* an OU fails the count after earlier nodes were recorded and with nodes still to visit
C8_Witness ==
    /\ CountViolation
    /\ data_dict # <<>>
    /\ Len(visited) > 1
    /\ Len(visited) < Len(TraversalOrder)

----------------------------------------------------------------------------
(* C9, C10: the result of a walk *)

\* policy names with a direct-content or shared-pointer file of the walked type
ObservedNames ==
    {nm \in PolicyNames : \E n \in NodeIds : HoldsDirect(n, nm) \/ HoldsShared(n, nm)}

\* every live node has its directory, every count is within the node's bound, no
\* policy name holds whitespace and every child list came in one page
WellFormedMirror ==
    /\ \A n \in NodeIds : DirExists(n)
    /\ \A n \in NodeIds :
          Cardinality(AttachmentFilesAt(n)) <=
              IF n \in OuIds THEN MAX_CUSTOM_POLICY_ATTACHMENTS - 2
              ELSE MAX_CUSTOM_POLICY_ATTACHMENTS
    /\ \A nm \in ObservedNames : ~HasSpace(nm)
    /\ error.type # "AttributeError"

\* C9: on a well-formed mirror the walk succeeds and the registry it returns has
\* one entry per distinct policy name observed in the tree.
C9_EntryCountIsDistinctNames ==
    WellFormedMirror =>
        /\ pc # "failed"
        /\ WalkFinished => Len(data_dict) = Cardinality(ObservedNames)

\* C10: nodes are visited in pre-order with child OUs before child accounts, and
\* the targets of every entry stand in the order their nodes were visited.
C10_PreOrderOusFirst ==
    /\ visited = SubSeq(TraversalOrder, 1, Len(visited))
    /\ pc \in {"walk", "write", "failed"} =>
          \A i \in 1..Len(data_dict) :
              LET t == data_dict[i].targets
              IN  /\ Range(t) \subseteq Range(visited)
                  /\ \A j, k \in 1..Len(t) : j < k => VisitIndex(t[j]) <= VisitIndex(t[k])

\* an entry lists an OU, then the OU below it, then an account of the root
C10_Witness ==
    /\ WalkFinished
    /\ org.parent[Ou2] = Ou1
    /\ org.parent[Acct1] = RootId
    /\ \E i \in 1..Len(data_dict) : data_dict[i].targets = <<Ou1, Ou2, Acct1>>

----------------------------------------------------------------------------
(* C11: the order of the manifest *)

\* the characters of the names, in the order Python compares them
CharOrder == <<" ", ".rcp", ".scp", ".shared", "A", "B", "C">>

CharRank(c) == CHOOSE i \in 1..Len(CharOrder) : CharOrder[i] = c

\* a < b as Python compares two strings
RECURSIVE NameLess(_, _)
NameLess(a, b) ==
    IF b = <<>> THEN FALSE
    ELSE IF a = <<>> THEN TRUE
    ELSE IF a[1] = b[1] THEN NameLess(Tail(a), Tail(b))
    ELSE CharRank(a[1]) < CharRank(b[1])

\* the entries main() wrote for one policy type, in file order
WrittenFor(cp_type) == SelectSeq(output, LAMBDA e : e.cp_type = cp_type)

\* the run wrote the manifest of every policy type
RunFinished == pc = "done"

\* no directory holds two files: the order a directory is listed in plays no part
OneFilePerDirectory == \A p \in DOMAIN fs : Cardinality(fs[p]) <= 1

\* C11: the entries written for a completed walk are one per distinct policy name
\* and in ascending order of policy name, whatever order the walk met the files in
\* (stated for mirrors where only the order of the nodes decides the encounter order).
C11_ManifestSortedByName ==
    (RunFinished /\ OneFilePerDirectory) =>
        \A t \in Range(policy_list) :
            \A i, j \in 1..Len(WrittenFor(t)) :
                i < j => NameLess(WrittenFor(t)[i].cp_name, WrittenFor(t)[j].cp_name)

----------------------------------------------------------------------------
(* C12: running the resolve pass twice *)

\* C12: a second run over the unchanged mirror and hierarchy that completes, after
\* a first run that completed, leaves a manifest identical to the first run's:
\* nothing of the first run is left over or added to.
C12_SecondRunSameManifest ==
    (run = "second" /\ previous.pc = "done" /\ RunFinished) =>
        output = previous.output

\* a second run has completed with entries of both policy types in the manifest
C12_Witness ==
    /\ run = "second"
    /\ previous.pc = "done"
    /\ RunFinished
    /\ \A t \in Range(policy_list) : WrittenFor(t) # <<>>

----------------------------------------------------------------------------
(* C15: the policy type of the manifest entries *)

\* the policy type whose files carry the extension the path ends in
FoundUnder(cp_policy_path) ==
    {t \in Range(policy_list) : Last(cp_policy_path) = DotExt(ShortName(t))}

\* C15: every entry of the manifest carries the policy type under which its file
\* was found, and no policy file is emitted twice: a policy collected in the
\* SERVICE_CONTROL_POLICY traversal is not emitted again by the
\* RESOURCE_CONTROL_POLICY traversal.
C15_EntriesCarryOwnType ==
    RunFinished =>
        /\ \A i \in 1..Len(output) : output[i].cp_type \in FoundUnder(output[i].cp_policy_path)
        /\ \A i, j \in 1..Len(output) :
               output[i].cp_policy_path = output[j].cp_policy_path => i = j

----------------------------------------------------------------------------
(* C13: accounts are leaves *)

\* C13: no walk lists the children of an Account node: no child-listing call of
\* the resolve walk, of the frequency-count pass or of the capture walk has an
\* account id as its parent.
C13_NoListingBelowAccount ==
    \A i \in 1..Len(listed) : ~IsAccountId(listed[i][1])

\* the capture walk has visited the account and every other node, after the
\* frequency-count pass, and has returned
C13_Witness ==
    /\ pc = "captured"
    /\ Range(visited) = NodeIds
    /\ \A n \in OuIds \cup {RootId} : <<n, "ACCOUNT">> \in Range(listed)

----------------------------------------------------------------------------
(* What the capture pass wrote, as the claims speak of it *)

\* the directory the capture walk makes for node n
RECURSIVE CaptureDir(_, _)
CaptureDir(o, n) ==
    PathJoin(IF n = RootId THEN OUTPUT_FOLDER ELSE CaptureDir(o, o.parent[n]),
             ou_name(o, n))

\* the nodes policy nm is attached at
AttachingNodes(nm) == {n \in NodeIds : nm \in Range(attached[n])}

\* the file with the content of policy nm, and the file that marks it as shared
ContentFile(nm) == nm \o <<".json">>
PointerFile(nm) == nm \o <<".shared">>

HasFile(dir, file_name) == dir \in DOMAIN fs /\ file_name \in fs[dir]

\* get_child_ou_and_scps, called on the root, has returned or raised
CaptureWalkEnded ==
    /\ script = "capture"
    /\ visited # <<>>
    /\ pc \in {"captured", "failed"}

\* customer policies are refreshed
RefreshEnabled == ~skip_customer_cp_refresh

----------------------------------------------------------------------------
(* C14: where the capture pass puts a policy *)

\* C14: once the capture walk has ended with customer-policy refresh enabled, a
\* policy attached at exactly one node has its content nowhere but in that node's
\* directory, and a policy attached at two or more nodes has its content nowhere
\* but in the SHARED folder and a shared-pointer file in the directory of every
\* node that attaches it.
C14_SharedOnlyWhenAttachedTwice ==
    (CaptureWalkEnded /\ RefreshEnabled) =>
        \A nm \in Range(CustomerPolicies) :
            LET nodes == AttachingNodes(nm)
                holders == {dir \in DOMAIN fs : HasFile(dir, ContentFile(nm))}
            IN  /\ Cardinality(nodes) = 1 =>
                       holders \subseteq {CaptureDir(org, n) : n \in nodes}
                /\ Cardinality(nodes) >= 2 =>
                       /\ holders \subseteq {SHARED_FOLDER}
                       /\ \A n \in nodes : HasFile(CaptureDir(org, n), PointerFile(nm))

----------------------------------------------------------------------------
(* C16: the dictionary the capture walk returns *)

\* the entries attachment_dict holds for policy nm
CaptureEntriesFor(nm) == {i \in 1..Len(attachment_dict) : attachment_dict[i].cp_name = nm}

\* C16: the capture walk, with customer-policy refresh enabled, returns a dictionary
\* in which every customer policy attached at n >= 1 nodes has exactly one entry,
\* whose target list holds all n node ids in traversal order: recording a second
\* or later attachment of a policy raises nothing.
C16_EveryAttachmentRecorded ==
    (CaptureWalkEnded /\ RefreshEnabled) =>
        /\ pc = "captured"
        /\ \A nm \in Range(CustomerPolicies) :
               AttachingNodes(nm) # {} =>
                   /\ Cardinality(CaptureEntriesFor(nm)) = 1
                   /\ \A i \in CaptureEntriesFor(nm) :
                          attachment_dict[i].cp_target_list =
                              InTraversalOrder(AttachingNodes(nm))

----------------------------------------------------------------------------
(* C17: capture, then resolve *)

\* what get_policy_attachments of resolve_control_policy_data.py collects, with an
\* empty dict, from the directory the capture walk made for node n
ResolvedFromCaptured(n) ==
    ScanFolder("cp", fs, <<>>, n, CaptureDir(org, n), policy_list[typeIdx])

\* C17: after a capture walk that returned, with customer-policy refresh enabled,
\* every attachment of a customer policy is one the resolve pass recognises: the
\* directory written for the node is the directory the resolve walk reads for it,
\* and the file written there matches the resolve pass's direct-content or
\* shared-pointer pattern, so that the scan of the directory yields an entry for
\* the policy with the node among its targets.
C17_CapturedMirrorResolves ==
    (script = "capture" /\ pc = "captured" /\ RefreshEnabled) =>
        \A nm \in Range(CustomerPolicies) : \A n \in AttachingNodes(nm) :
            /\ CaptureDir(org, n) = NodePath(org, n)
            /\ ResolvedFromCaptured(n).err = NoError
            /\ \E i \in 1..Len(ResolvedFromCaptured(n).dict) :
                   /\ ResolvedFromCaptured(n).dict[i].name = nm
                   /\ n \in Range(ResolvedFromCaptured(n).dict[i].targets)

====
